---- MODULE Spec2Model ----
(***************************************************************************)
(* ACH Participants Dashboard: the workbook loader load_participant_sheets *)
(* of app.py, app2.py and app3.py, the Streamlit script each of them runs  *)
(* on every render, and the line scanner of the PDF text extractor.        *)
(*                                                                         *)
(* Text is modelled by TLA+ strings, read character by character with      *)
(* SubSeq.  A cell of a sheet read with header=None is a record: an empty  *)
(* cell (NaN), a text cell, or a date cell (a pandas Timestamp).           *)
(***************************************************************************)
EXTENDS Integers, Sequences, FiniteSets, TLC

VARIABLES
    \* --- the loader applied to one workbook ---
    wb,          \* the workbook handed to the loader: a sequence of sheets
    variant,     \* which script's loader ran last ("none" before any)
    loaded       \* what that call returned (or raised)

loadVars == <<wb, variant, loaded>>

VARIABLES
    \* --- one Streamlit server running one of the three scripts ---
    app,         \* the script: "app", "app2" or "app3"
    environ,     \* os.environ of the server process, as far as app3.py reads it
    file,        \* ACHdata.xlsx on disk: whether it exists, and its sheets
    clock,       \* the file system's clock
    cache,       \* the st.cache_data store of load_participant_sheets
    loadedKeys,  \* the keys whose load ran to its return statement
    session,     \* st.session_state.bills_full_authenticated
    view         \* what the last run of the script did and showed

dashVars == <<app, environ, file, clock, cache, loadedKeys, session, view>>

VARIABLES
    \* --- the PDF text extractor scanning one document ---
    doc,              \* the lines of the document, top to bottom
    pos,              \* how many of them have been scanned
    currentCategory,  \* "" while unset
    currentRole,      \* "" while unset
    emitted           \* the rows emitted so far

scanVars == <<doc, pos, currentCategory, currentRole, emitted>>

VARIABLES
    \* --- the summary section applied to one filtered table ---
    filtered,       \* dff: the columns and the rows the filters left
    summaryOf,      \* which script's summary ran ("none" before any)
    pivot_display   \* the table it handed to st.dataframe

sumVars == <<filtered, summaryOf, pivot_display>>

vars == <<loadVars, dashVars, scanVars, sumVars>>

Variants == {"app", "app2", "app3"}

----------------------------------------------------------------------------
(* Bounds of the model *)

MaxSheets == 2      \* sheets of a workbook
MaxDataRows == 3    \* rows below the header row of a sheet
MaxClock == 2       \* writes to ACHdata.xlsx
MaxLines == 4       \* lines of a document
MaxRows == 2        \* rows of a filtered table

----------------------------------------------------------------------------
(* Python str operations *)

At(s, i) == SubSeq(s, i, i)

IsSpace(c) == c \in {" ", "\t", "\n"}

IsDigit(c) == c \in {"0", "1", "2", "3", "4", "5", "6", "7", "8", "9"}

UpperChars == "ABCDEFGHIJKLMNOPQRSTUVWXYZ"
LowerChars == "abcdefghijklmnopqrstuvwxyz"

LowerChar(c) ==
    IF \E i \in 1..Len(UpperChars) : At(UpperChars, i) = c
    THEN At(LowerChars, CHOOSE i \in 1..Len(UpperChars) : At(UpperChars, i) = c)
    ELSE c

RECURSIVE Lower(_)
Lower(s) == IF s = "" THEN "" ELSE LowerChar(At(s, 1)) \o Lower(Tail(s))

RECURSIVE LStrip(_)
LStrip(s) == IF s # "" /\ IsSpace(At(s, 1)) THEN LStrip(Tail(s)) ELSE s

RECURSIVE RStrip(_)
RStrip(s) ==
    IF s # "" /\ IsSpace(At(s, Len(s)))
    THEN RStrip(SubSeq(s, 1, Len(s) - 1))
    ELSE s

\* str.strip()
Strip(s) == RStrip(LStrip(s))

\* str.endswith(suffix)
EndsWith(s, suffix) ==
    /\ Len(s) >= Len(suffix)
    /\ SubSeq(s, Len(s) - Len(suffix) + 1, Len(s)) = suffix

\* sub in s
Contains(s, sub) ==
    \E i \in 1..(Len(s) - Len(sub) + 1) : SubSeq(s, i, i + Len(sub) - 1) = sub

\* sep.join(parts)
RECURSIVE Join(_, _)
Join(sep, parts) ==
    IF Len(parts) = 0 THEN ""
    ELSE IF Len(parts) = 1 THEN parts[1]
    ELSE parts[1] \o sep \o Join(sep, Tail(parts))

----------------------------------------------------------------------------
(* Cells *)

NaN == [k |-> "nan", v |-> ""]
Txt(s) == [k |-> "str", v |-> s]
Date(d) == [k |-> "ts", v |-> d]
Bool(b) == [k |-> "bool", v |-> b]

IsNa(c) == c.k = "nan"

\* astype(str) of one cell
AsStr(c) ==
    CASE c.k = "nan" -> "nan"
      [] c.k = "str" -> c.v
      [] c.k = "ts" -> c.v \o " 00:00:00"
      [] c.k = "bool" -> c.v

----------------------------------------------------------------------------
(* load_participant_sheets *)

\* Eligible with the name left unstripped
EligibleUnstripped(v, sheet) ==
    IF v = "app3"
    THEN Contains(sheet, "Participants")
    ELSE EndsWith(sheet, "Participants")

\* the test of the loop over xls.sheet_names
Eligible(v, sheet) ==
    IF v = "app3"
    THEN Contains(sheet, "Participants")
    ELSE EndsWith(Strip(sheet), "Participants")

RECURSIVE DropNa(_)
DropNa(row) ==
    IF Len(row) = 0 THEN <<>>
    ELSE IF IsNa(row[1]) THEN DropNa(Tail(row))
    ELSE <<row[1]>> \o DropNa(Tail(row))

\* raw.iloc[0].dropna().astype(str).tolist(), joined with " "
Joined(raw) ==
    LET first_row == DropNa(raw[1])
    IN  Join(" ", [i \in 1..Len(first_row) |-> AsStr(first_row[i])])

\* [0-9]{4}-[0-9]{2}-[0-9]{2} at position i of s
DateAt(s, i) ==
    /\ i + 9 <= Len(s)
    /\ \A k \in {0, 1, 2, 3, 5, 6, 8, 9} : IsDigit(At(s, i + k))
    /\ At(s, i + 4) = "-"
    /\ At(s, i + 7) = "-"

RECURSIVE SkipSpaces(_, _)
SkipSpaces(s, i) ==
    IF i <= Len(s) /\ IsSpace(At(s, i)) THEN SkipSpaces(s, i + 1) ELSE i

\* AsOfAt without re.IGNORECASE
AsOfAtCaseSensitive(s, i) == i + 4 <= Len(s) /\ SubSeq(s, i, i + 4) = "as of"

\* "as of" at position i, under re.IGNORECASE
AsOfAt(s, i) == i + 4 <= Len(s) /\ Lower(SubSeq(s, i, i + 4)) = "as of"

\* The pattern as of\s*[:\-]?\s*(date) tried at position i: where the
\* captured group starts, 0 when the pattern does not match at i.  The date
\* starts with a digit, so the greedy \s*, [:\-]? and \s* never backtrack.
MatchAt(s, i) ==
    IF ~AsOfAt(s, i) THEN 0
    ELSE LET a == SkipSpaces(s, i + 5)
             b == IF a <= Len(s) /\ At(s, a) \in {":", "-"} THEN a + 1 ELSE a
             c == SkipSpaces(s, b)
         IN  IF DateAt(s, c) THEN c ELSE 0

RECURSIVE Search(_, _)
\* re.search: the leftmost position at which the pattern matches
Search(s, i) ==
    IF i > Len(s) THEN 0
    ELSE IF MatchAt(s, i) # 0 THEN MatchAt(s, i)
    ELSE Search(s, i + 1)

\* subtitle = "" ; if m: subtitle = f"as of {m.group(1)}"
Subtitle(joined) ==
    LET g == Search(joined, 1)
    IN  IF g = 0 THEN "" ELSE "as of " \o SubSeq(joined, g, g + 9)

\* raw.iloc[1].astype(str).str.strip().tolist()
Headers(raw) == [j \in 1..Len(raw[2]) |-> Strip(AsStr(raw[2][j]))]

AllNa(cells) == \A j \in 1..Len(cells) : IsNa(cells[j])

AnyNa(cells) == \E j \in 1..Len(cells) : IsNa(cells[j])

RECURSIVE DropNaAny(_)
\* DropNaAll with how="any"
DropNaAny(rows) ==
    IF Len(rows) = 0 THEN <<>>
    ELSE IF AnyNa(rows[1].cells) THEN DropNaAny(Tail(rows))
    ELSE <<rows[1]>> \o DropNaAny(Tail(rows))

RECURSIVE DropNaAll(_)
\* df.dropna(how="all"): the rows keep their index labels
DropNaAll(rows) ==
    IF Len(rows) = 0 THEN <<>>
    ELSE IF AllNa(rows[1].cells) THEN DropNaAll(Tail(rows))
    ELSE <<rows[1]>> \o DropNaAll(Tail(rows))

\* raw.iloc[2:].copy(): row i of the sheet (0-based label i - 1)
DataRows(raw) ==
    [i \in 1..(Len(raw) - 2) |-> [idx |-> i + 1, cells |-> raw[i + 2]]]

RECURSIVE KeepAt(_, _)
\* the elements of row at the positions in keep, in order
KeepAt(row, keep) ==
    IF Len(row) = 0 THEN <<>>
    ELSE KeepAt(SubSeq(row, 1, Len(row) - 1), keep)
         \o (IF Len(row) \in keep THEN <<row[Len(row)]>> ELSE <<>>)

\* LoadSheet followed by a dropna(axis=1, how="all")
LoadSheetDropEmptyColumns(v, raw) ==
    LET headers == Headers(raw)
        rows == DropNaAll(DataRows(raw))
        keep == {j \in 1..Len(headers) :
                    \E i \in 1..Len(rows) : ~IsNa(rows[i].cells[j])}
    IN  [subtitle |-> Subtitle(Joined(raw)),
         df |-> [columns |-> KeepAt(headers, keep),
                 rows |-> [i \in 1..Len(rows) |->
                             [idx |-> rows[i].idx,
                              cells |-> KeepAt(rows[i].cells, keep)]]]]

\* the body of the loop for one eligible sheet with at least two rows
LoadSheet(v, raw) ==
    LET headers == Headers(raw)
        columns == IF v = "app"
                   THEN [j \in 1..Len(headers) |-> Strip(headers[j])]
                   ELSE headers
    IN  [subtitle |-> Subtitle(Joined(raw)),
         df |-> [columns |-> columns, rows |-> DropNaAll(DataRows(raw))]]

Raised(e) == [ok |-> FALSE, err |-> e, data |-> <<>>]
Returned(d) == [ok |-> TRUE, err |-> "", data |-> d]

RECURSIVE LoadFrom(_, _, _, _)
\* the loop: raw.iloc[0] and raw.iloc[1] raise IndexError on a sheet of
\* fewer than two rows, and nothing catches it
LoadFrom(v, book, i, data) ==
    IF i > Len(book) THEN Returned(data)
    ELSE IF ~Eligible(v, book[i].name) THEN LoadFrom(v, book, i + 1, data)
    ELSE IF Len(book[i].raw) < 2 THEN Raised("IndexError")
    ELSE LET one == LoadSheet(v, book[i].raw)
         IN  LoadFrom(v, book, i + 1,
                      Append(data, [sheet |-> book[i].name,
                                    subtitle |-> one.subtitle,
                                    df |-> one.df]))

load_participant_sheets(v, book) == LoadFrom(v, book, 1, <<>>)

----------------------------------------------------------------------------
(* Workbooks the loader is applied to *)

SheetNames ==
    {"InstaPay Participants", "Participants ", "Bills Pay Participants (Full)",
     "participants", "PESONet Participant"}

FullSheetNames == {"InstaPay Participants", "Bills Pay Participants (Full)"}

MetadataRows ==
    {<<Txt("ACH list as of 2025-12-31"), NaN, NaN>>,
     <<Txt("As Of:"), NaN, Date("2024-01-05")>>,
     <<Txt("as of 2025-1-31"), Txt("AS OF -2025-12-31x"), NaN>>,
     <<Date("2024-01-05"), Txt("as of"), Txt("2025-12-31")>>,
     <<Txt("Participants"), NaN, Txt("as of2024")>>,
     <<NaN, NaN, NaN>>}

HeaderRows ==
    {<<Txt(" Institution "), Txt("Category"), Txt("Institution Type")>>,
     <<Txt("Institution"), NaN, Txt("Remarks\t")>>}

BodyRows ==
    {<<Txt("ABC Bank"), Txt("Issuer"), NaN>>,
     <<Txt("XYZ Bank"), NaN, NaN>>,
     <<NaN, Txt("Acquirer"), Txt("Thrift Banks (TBs)")>>,
     <<NaN, NaN, NaN>>}

SeqsUpTo(S, n) == UNION {[1..k -> S] : k \in 0..n}

\* sheets of at least two rows: every metadata row over one table, and
\* every table under one metadata row
FullGrids ==
    {<<m, <<Txt("Institution"), Txt("Category"), NaN>>,
       <<Txt("ABC Bank"), Txt("Issuer"), NaN>>>> : m \in MetadataRows}
    \cup
    {<<<<Txt("as of 2025-12-31"), NaN, NaN>>, h>> \o body :
        h \in HeaderRows, body \in SeqsUpTo(BodyRows, MaxDataRows)}

\* a few grids, among them the sheets of fewer than two rows
PlainGrids ==
    {<<>>,
     <<<<Txt("as of 2025-12-31"), NaN, NaN>>>>,
     <<<<Txt("as of 2025-12-31"), NaN, NaN>>,
       <<Txt("Institution"), Txt("Category"), NaN>>,
       <<Txt("ABC Bank"), Txt("Issuer"), NaN>>>>}

DistinctNames(book) ==
    \A i, j \in 1..Len(book) : i # j => book[i].name # book[j].name

Workbooks ==
    {<<[name |-> n, raw |-> g]>> : n \in FullSheetNames, g \in FullGrids}
    \cup
    {book \in SeqsUpTo([name : SheetNames, raw : PlainGrids], MaxSheets) :
        DistinctNames(book)}

----------------------------------------------------------------------------
(* The loader applied to a workbook *)

NotLoaded == [ok |-> FALSE, err |-> "not called", data |-> <<>>]

\* no server runs
DashIdle ==
    /\ app = "none"
    /\ environ = [set |-> FALSE, value |-> ""]
    /\ file = [exists |-> FALSE, mtime |-> 0, book |-> <<>>]
    /\ clock = 0
    /\ cache = <<>>
    /\ loadedKeys = {}
    /\ session = "unset"
    /\ view = [outcome |-> "none"]

\* no document is being scanned
ScanIdle ==
    /\ doc = <<>>
    /\ pos = 0
    /\ currentCategory = ""
    /\ currentRole = ""
    /\ emitted = <<>>

\* no summary is being made
SumIdle ==
    /\ filtered = [columns |-> <<>>, rows |-> <<>>]
    /\ summaryOf = "none"
    /\ pivot_display = [made |-> FALSE]

InitLoad ==
    /\ wb \in Workbooks
    /\ variant = "none"
    /\ loaded = NotLoaded
    /\ DashIdle
    /\ ScanIdle
    /\ SumIdle

Load(v) ==
    /\ variant' = v
    /\ loaded' = load_participant_sheets(v, wb)
    /\ UNCHANGED <<wb, dashVars, scanVars, sumVars>>

NextLoad == \E v \in Variants : Load(v)

SpecLoad == InitLoad /\ [][NextLoad]_vars

----------------------------------------------------------------------------
(* The script: what one run (one render) of app.py, app2.py, app3.py does *)

DATA_FILE == "ACHdata.xlsx"

\* os.getenv(name, default) for the one name the scripts read
Getenv(default) == IF environ.set THEN environ.value ELSE default

\* the environment of a deployment: APP_PASSWORD unset, set, or set empty
NoEnv == [set |-> FALSE, value |-> ""]
Environs == {NoEnv, [set |-> TRUE, value |-> "s3cret"], [set |-> TRUE, value |-> ""]}

APP_PASSWORD == Getenv("GovAdrian")

\* password == APP_PASSWORD, compared without regard to case
PasswordMatchesIgnoringCase(password) == Lower(password) = Lower(APP_PASSWORD)

\* password == APP_PASSWORD
PasswordMatches(password) == password = APP_PASSWORD

RestrictedSheet == "Bills Pay Participants (Full)"

\* the keys of INST_TYPE_SHORT (app2.py, app3.py): INST_TYPE_ORDER
INST_TYPE_ORDER ==
    {"Universal and Commercial Banks (U/KBs)", "Thrift Banks (TBs)",
     "Rural Banks (RBs)", "Digital Banks",
     "Electronic Money Issuers (EMI) - Others"}

\* the keys of ROLE_MAP for the active sheet
ROLE_MAP(active_sheet) ==
    IF Len(active_sheet) >= 4 /\ Lower(SubSeq(active_sheet, 1, 4)) = "egov"
    THEN {"Issuer", "Acquirer"}
    ELSE {"Sender/Receiver", "Sender Only", "Receiver Only"}

HasColumn(df, name) == \E j \in 1..Len(df.columns) : df.columns[j] = name

\* the position of the column called name (the books hold no duplicate names)
ColumnOf(df, name) == CHOOSE j \in 1..Len(df.columns) : df.columns[j] = name

\* df[name].dropna().unique(): the options of a multiselect
Options(df, name) ==
    IF HasColumn(df, name)
    THEN {df.rows[r].cells[ColumnOf(df, name)] : r \in 1..Len(df.rows)} \ {NaN}
    ELSE {}

\* dff[dff[name].isin(selected)]
IsIn(df, rows, name, selected) ==
    LET j == ColumnOf(df, name)
        Keep(r) == r.cells[j] \in selected
    IN  SelectSeq(rows, Keep)

\* re.compile(pat): the search texts hold letters, spaces, "." and "(";
\* a "(" never finds its ")" and the pattern does not compile
RegexError(pat) == Contains(pat, "(")

\* the compiled pattern, under re.IGNORECASE, matched at position i of text
RegexMatchAt(pat, text, i) ==
    \A k \in 1..Len(pat) :
        \/ At(pat, k) = "."
        \/ LowerChar(At(pat, k)) = LowerChar(At(text, i + k - 1))

RegexSearch(pat, text) ==
    \E i \in 1..(Len(text) - Len(pat) + 1) : RegexMatchAt(pat, text, i)

\* dff[dff["Institution"].str.contains(search, case=False, na=False)]:
\* regex=True is the default; a cell that is no text gives na
StrContains(df, rows, search) ==
    LET j == ColumnOf(df, "Institution")
        Keep(r) == r.cells[j].k = "str" /\ RegexSearch(search, r.cells[j].v)
    IN  SelectSeq(rows, Keep)

\* CacheKey with the modification time left out of the key
CacheKeyPathOnly(xlsx_path, mtime) == <<xlsx_path, 0>>

\* the key st.cache_data files a result under: the arguments of the call
CacheKey(xlsx_path, mtime) == <<xlsx_path, mtime>>

\* Exists with the test left out
ExistsUnchecked(f) == TRUE

\* DATA_FILE.exists()
Exists(f) == f.exists

NoLoad == [called |-> FALSE, parsed |-> FALSE, key |-> <<DATA_FILE, 0>>,
           result |-> NotLoaded]

NoSearch == [reached |-> FALSE, text |-> "", before |-> <<>>, after |-> <<>>]

\* sheets_data = load_participant_sheets(DATA_FILE, DATA_FILE.stat().st_mtime)
\* under @st.cache_data: the body runs on a miss, and what it returns is
\* stored; what it raises is not
CachedLoad(v, f, c) ==
    IF ~f.exists
    THEN [called |-> FALSE, parsed |-> FALSE, key |-> <<DATA_FILE, 0>>,
          result |-> Raised("FileNotFoundError"), cache |-> c]
    ELSE LET key == CacheKey(DATA_FILE, f.mtime)
         IN  IF key \in DOMAIN c
             THEN [called |-> TRUE, parsed |-> FALSE, key |-> key,
                   result |-> c[key], cache |-> c]
             ELSE CHOOSE ld \in
                      {[called |-> TRUE, parsed |-> TRUE, key |-> key,
                        result |-> r,
                        cache |-> IF r.ok
                                  THEN [k \in DOMAIN c \cup {key} |->
                                           IF k = key THEN r ELSE c[k]]
                                  ELSE c] :
                          r \in {load_participant_sheets(v, f.book)}} : TRUE

LoadPart(ld) == [called |-> ld.called, parsed |-> ld.parsed, key |-> ld.key,
                 result |-> ld.result]

\* sheets_data[active_sheet]
EntryOf(data, active_sheet) ==
    data[CHOOSE e \in 1..Len(data) : data[e].sheet = active_sheet]

SheetNamesOf(data) == {data[e].sheet : e \in 1..Len(data)}

\* the columns the tables below the summary index without a test
\* (app2.py:184-204, app3.py:312-395): the first one missing raises KeyError
LayoutRaises(v, active_sheet, df, dff) ==
    LET j == ColumnOf(df, "Institution Type")
        Block == {r \in 1..Len(dff) :
                     dff[r].cells[j] \in {Txt(t) : t \in INST_TYPE_ORDER}}
        RoleBlock ==
            {r \in Block : dff[r].cells[ColumnOf(df, "Category")]
                               \in {Txt(role) : role \in ROLE_MAP(active_sheet)}}
    IN  CASE v = "app" -> FALSE
          [] ~HasColumn(df, "Institution Type") -> TRUE
          [] Block = {} -> FALSE
          [] v = "app3" /\ active_sheet = RestrictedSheet ->
                \E name \in {"Institution", "QR Sender", "QR Receiver",
                             "Non-QR Sender", "Non-QR Receiver"} :
                    ~HasColumn(df, name)
          [] ~HasColumn(df, "Category") -> TRUE
          [] RoleBlock = {} -> FALSE
          [] OTHER -> ~HasColumn(df, "Institution")

\* what the script shows above the navigation
Top(v) == IF v = "app3" THEN {} ELSE {"title"}

Stopped(outcome, errorAt, error, ld, active_sheet, shown, search, flag) ==
    [view |-> [outcome |-> outcome, errorAt |-> errorAt, error |-> error,
               load |-> LoadPart(ld), active |-> active_sheet,
               shown |-> shown, search |-> search],
     cache |-> ld.cache,
     session |-> flag]

\* the summary section, or the notice in its place
SummaryShown(v, active_sheet, df, search) ==
    LET both == HasColumn(df, "Category") /\ HasColumn(df, "Institution Type")
    IN  CASE v = "app" -> IF both THEN {"summary"} ELSE {"info"}
          [] v = "app2" -> IF both THEN {"summary"} ELSE {}
          [] v = "app3" /\ active_sheet = RestrictedSheet /\ search = "" ->
                IF \A name \in {"Institution Type", "QR Sender", "QR Receiver",
                                "Non-QR Sender", "Non-QR Receiver"} :
                       HasColumn(df, name)
                THEN {"summary"} ELSE {}
          [] v = "app3" /\ search = "" /\ both -> {"summary"}
          [] v = "app3" /\ search # "" -> {"info"}
          [] OTHER -> {}

\* the category and institution type filters: dff before the search step
Selected(df, cats, types) ==
    LET byCat == IF HasColumn(df, "Category")
                 THEN IsIn(df, df.rows, "Category", cats)
                 ELSE df.rows
    IN  IF HasColumn(df, "Institution Type")
        THEN IsIn(df, byCat, "Institution Type", types)
        ELSE byCat

\* whether the script takes the search step: app.py tests the column too
Searches(v, df, search) ==
    IF v = "app"
    THEN search # "" /\ HasColumn(df, "Institution")
    ELSE search # ""

\* the script from the header on, with dff as the search step left it
Show(v, ld, flag, inp, df, shown, step) ==
    IF LayoutRaises(v, inp.pick, df, step.after)
    THEN Stopped("Exception", "tables", "KeyError", ld, inp.pick,
                 shown \cup {"header"} \cup SummaryShown(v, inp.pick, df, inp.search),
                 step, flag)
    ELSE Stopped("Rendered", "", "", ld, inp.pick,
                 shown \cup {"header", "tables"}
                     \cup SummaryShown(v, inp.pick, df, inp.search),
                 step, flag)

\* the search step on the rows the other filters left, and what follows
SearchAndShow(v, ld, flag, inp, df, shown, before) ==
    LET step == [reached |-> TRUE, text |-> inp.search, before |-> before,
                 after |-> <<>>]
        \* app3.py shows its header above the filters
        sofar == IF v = "app3" THEN shown \cup {"header"} ELSE shown
    IN  IF ~Searches(v, df, inp.search)
        THEN Show(v, ld, flag, inp, df, shown, [step EXCEPT !.after = before])
        ELSE IF ~HasColumn(df, "Institution")
        THEN Stopped("Exception", "search", "KeyError", ld, inp.pick, sofar,
                     step, flag)
        ELSE IF RegexError(inp.search)
        THEN Stopped("Exception", "search", "re.error", ld, inp.pick, sofar,
                     step, flag)
        ELSE CHOOSE out \in
                 {Show(v, ld, flag, inp, df, shown, [step EXCEPT !.after = dff]) :
                     dff \in {StrContains(df, before, inp.search)}} : TRUE

\* from the sidebar to the end of the script
FilterAndShow(v, ld, flag, inp, shown0) ==
    CHOOSE out \in
        {SearchAndShow(v, ld, flag, inp, df, shown0 \cup {"filters"}, before) :
            <<df, before>> \in
                {<<e.df, Selected(e.df, inp.cats, inp.types)>> :
                    e \in {EntryOf(ld.result.data, inp.pick)}}} : TRUE

\* the script once the load has returned or raised
RECURSIVE AfterLoad(_, _, _, _)
AfterLoad(v, ld, flag, inp) ==
    IF ~ld.result.ok
    THEN Stopped("Exception", "load", ld.result.err, ld, "", Top(v),
                 NoSearch, flag)
    ELSE IF Len(ld.result.data) = 0
    THEN IF v = "app"
         THEN Stopped("EmptySource", "", "", ld, "",
                      Top(v) \cup {"error"}, NoSearch, flag)
         ELSE \* st.radio over no option returns None:
              \* sheets_data[None] raises KeyError
              Stopped("Exception", "nav", "KeyError", ld, "",
                      Top(v) \cup {"nav"}, NoSearch, flag)
    ELSE IF v = "app3" /\ inp.pick = RestrictedSheet /\ flag # "true"
    THEN IF PasswordMatches(inp.password)
         THEN \* st.rerun(): the script runs again, unlocked; the load is
              \* a cache hit
              AfterLoad(v, ld, "true", inp)
         ELSE Stopped("Locked", "", "", ld, inp.pick,
                      {"nav", "gate"}
                          \cup (IF inp.password # "" THEN {"error"} ELSE {}),
                      NoSearch, "false")
    ELSE FilterAndShow(v, ld, flag, inp, Top(v) \cup {"nav"})

\* One run of the script, top to bottom, with the widgets at inp.
Script(v, f, c, flag, inp) ==
    IF ~Exists(f)
    THEN Stopped("NotFound", "", "", NoLoad @@ [cache |-> c], "",
                 Top(v) \cup {"error"}, NoSearch, flag)
    ELSE CHOOSE out \in
             {AfterLoad(v, ld, flag, inp) : ld \in {CachedLoad(v, f, c)}} : TRUE

----------------------------------------------------------------------------
(* The widgets: what the user can set before a run *)

SearchTexts == {"", "bank", "B", "a.c", "(", "zz"}

Passwords == {"", "GovAdrian", "govadrian", "s3cret"}

\* the widget values a run can meet once the load has returned
InputsAfter(v, ld, flag) ==
    LET untouched == [pick |-> "", cats |-> {}, types |-> {}, search |-> "",
                      password |-> ""]
    IN  IF ~ld.result.ok \/ Len(ld.result.data) = 0
        THEN {untouched}
        ELSE UNION {
            IF v = "app3" /\ e.sheet = RestrictedSheet /\ flag # "true"
            THEN {[pick |-> e.sheet,
                   cats |-> Options(e.df, "Category"),
                   types |-> Options(e.df, "Institution Type"),
                   search |-> "",
                   password |-> pw] : pw \in Passwords}
            ELSE {[pick |-> e.sheet, cats |-> cs, types |-> ts,
                   search |-> srch, password |-> ""] :
                     cs \in SUBSET Options(e.df, "Category"),
                     ts \in SUBSET Options(e.df, "Institution Type"),
                     srch \in SearchTexts}
            : e \in {ld.result.data[i] : i \in 1..Len(ld.result.data)}}

\* the widget values a run can meet
Inputs(v, f, c, flag) ==
    UNION {InputsAfter(v, ld, flag) : ld \in {CachedLoad(v, f, c)}}

\* the widgets as a run shows them first: the first sheet, every option
\* selected, no search text, no password
DefaultInputsAfter(ld) ==
    IF ~ld.result.ok \/ Len(ld.result.data) = 0
    THEN {[pick |-> "", cats |-> {}, types |-> {}, search |-> "",
           password |-> ""]}
    ELSE {[pick |-> ld.result.data[1].sheet,
           cats |-> Options(ld.result.data[1].df, "Category"),
           types |-> Options(ld.result.data[1].df, "Institution Type"),
           search |-> "",
           password |-> ""]}

DefaultInputs(v, f, c, flag) ==
    UNION {DefaultInputsAfter(ld) : ld \in {CachedLoad(v, f, c)}}

----------------------------------------------------------------------------
(* ACHdata.xlsx *)

Table3(name, rows) ==
    [name |-> name,
     raw |-> <<<<Txt("as of 2025-12-31"), NaN, NaN>>,
               <<Txt("Institution"), Txt("Category"), Txt("Institution Type")>>>>
             \o rows]

InstaPaySheet ==
    Table3("InstaPay Participants",
           <<<<Txt("ABC Bank"), Txt("Sender/Receiver"), Txt("Thrift Banks (TBs)")>>,
             <<Txt("a.c (Coop)"), Txt("Receiver Only"), Txt("Cooperative")>>,
             <<NaN, NaN, Txt("Thrift Banks (TBs)")>>>>)

BillsPayFullSheet ==
    [name |-> RestrictedSheet,
     raw |-> <<<<Txt("Bills Pay"), Txt("As of: 2025-11-30"), NaN, NaN, NaN, NaN>>,
               <<Txt("Institution"), Txt("Institution Type"), Txt("QR Sender"),
                 Txt("QR Receiver"), Txt("Non-QR Sender"), Txt("Non-QR Receiver")>>,
               <<Txt("XYZ Bank"), Txt("Rural Banks (RBs)"), Bool("True"),
                 Bool("False"), Bool("True"), Bool("True")>>>>]

EGovSheet ==
    [name |-> "eGov Participants",
     raw |-> <<<<NaN, NaN, NaN>>,
               <<Txt("Name"), Txt("Category"), Txt("Institution Type")>>,
               <<Txt("ABC Bank"), Txt("Issuer"), Txt("Digital Banks")>>>>]

NotesSheet == [name |-> "Notes", raw |-> <<<<Txt("see BancNet"), NaN>>>>]

TornSheet == [name |-> "PESONet Participants",
              raw |-> <<<<Txt("as of 2025-12-31")>>>>]

Books ==
    {<<InstaPaySheet, BillsPayFullSheet>>,
     <<NotesSheet>>,
     <<NotesSheet, EGovSheet>>,
     <<TornSheet, InstaPaySheet>>}

Missing == [exists |-> FALSE, mtime |-> 0, book |-> <<>>]

----------------------------------------------------------------------------
(* The server: renders interleaved with writes to the file *)

NoView == [outcome |-> "none", errorAt |-> "", error |-> "", load |-> NoLoad,
           active |-> "", shown |-> {}, search |-> NoSearch,
           widgets |-> [pick |-> "", cats |-> {}, types |-> {}, search |-> "",
                        password |-> ""]]

\* what a run did and showed, with the widget values it read
Viewed(run, inp) == run.view @@ [widgets |-> inp]

LoadIdle ==
    /\ wb = <<>>
    /\ variant = "none"
    /\ loaded = NotLoaded

Init ==
    /\ LoadIdle
    /\ ScanIdle
    /\ SumIdle
    /\ app \in Variants
    \* only app3.py reads the environment
    /\ environ \in IF app = "app3" THEN Environs ELSE {NoEnv}
    /\ clock = 0
    /\ file \in {Missing} \cup {[exists |-> TRUE, mtime |-> 0, book |-> b] : b \in Books}
    /\ cache = <<>>
    /\ loadedKeys = {}
    /\ session = "unset"
    /\ view = NoView

\* the file is written (or written back unchanged): a later mtime
WriteFile(b) ==
    /\ clock < MaxClock
    /\ clock' = clock + 1
    /\ file' = [exists |-> TRUE, mtime |-> clock + 1, book |-> b]
    /\ UNCHANGED <<app, environ, cache, loadedKeys, session, view, loadVars, scanVars, sumVars>>

RemoveFile ==
    /\ file.exists
    /\ file' = Missing
    /\ UNCHANGED <<app, environ, clock, cache, loadedKeys, session, view, loadVars, scanVars, sumVars>>

\* a browser session ends and the next one starts
NewSession ==
    /\ session # "unset"
    /\ session' = "unset"
    /\ view' = NoView
    /\ UNCHANGED <<app, environ, file, clock, cache, loadedKeys, loadVars, scanVars, sumVars>>

\* one run of the script
Render(inp) ==
    \E run \in {Script(app, file, cache, session, inp)} :
        /\ view' = Viewed(run, inp)
        /\ cache' = run.cache
        /\ session' = run.session
        /\ loadedKeys' = IF run.view.load.parsed /\ run.view.load.result.ok
                         THEN loadedKeys \cup {run.view.load.key}
                         ELSE loadedKeys
        /\ UNCHANGED <<app, environ, file, clock, loadVars, scanVars, sumVars>>

\* a session at work on a file that stays as it is
Next ==
    \/ NewSession
    \/ \E inp \in Inputs(app, file, cache, session) : Render(inp)

Spec == Init /\ [][Next]_vars

\* the file written and removed between runs, the widgets left alone
NextFile ==
    \/ \E b \in Books : WriteFile(b)
    \/ RemoveFile
    \/ \E inp \in DefaultInputs(app, file, cache, session) : Render(inp)

SpecFile == Init /\ [][NextFile]_vars

----------------------------------------------------------------------------
(* DocumentTextExtractor: the scan of the lines of one document *)

RECURSIVE Upper(_)
Upper(s) ==
    IF s = "" THEN ""
    ELSE (IF \E i \in 1..Len(LowerChars) : At(LowerChars, i) = At(s, 1)
          THEN At(UpperChars, CHOOSE i \in 1..Len(LowerChars) : At(LowerChars, i) = At(s, 1))
          ELSE At(s, 1))
         \o Upper(Tail(s))

RECURSIVE Collapse(_)
\* runs of whitespace to a single space
Collapse(s) ==
    IF s = "" THEN ""
    ELSE IF IsSpace(At(s, 1))
    THEN " " \o Collapse(LStrip(s))
    ELSE At(s, 1) \o Collapse(Tail(s))

\* whitespace normalization of a line, before any pattern is tried
Normalize(line) == Strip(Collapse(line))

\* marker -> short code, in mapping order
CategoryMarkers ==
    <<<<"Universal and Commercial Banks", "U/KBs">>, <<"Thrift Banks", "TBs">>>>

\* role-header token -> label, in mapping order
RoleHeaders ==
    <<<<"SENDER/RECEIVER", "Sender/Receiver">>, <<"SENDER ONLY", "Sender Only">>>>

StartsWith(s, prefix) ==
    Len(s) >= Len(prefix) /\ SubSeq(s, 1, Len(prefix)) = prefix

\* the short code of the first marker the line contains, "" when none
CategoryOf(line) ==
    IF \E m \in 1..Len(CategoryMarkers) : Contains(line, CategoryMarkers[m][1])
    THEN CategoryMarkers[CHOOSE m \in 1..Len(CategoryMarkers) :
            /\ Contains(line, CategoryMarkers[m][1])
            /\ \A n \in 1..(m - 1) : ~Contains(line, CategoryMarkers[n][1])][2]
    ELSE ""

\* the label of the first token the case-normalized line starts with
RoleOf(line) ==
    IF \E m \in 1..Len(RoleHeaders) : StartsWith(Upper(line), RoleHeaders[m][1])
    THEN RoleHeaders[CHOOSE m \in 1..Len(RoleHeaders) :
            /\ StartsWith(Upper(line), RoleHeaders[m][1])
            /\ \A n \in 1..(m - 1) : ~StartsWith(Upper(line), RoleHeaders[n][1])][2]
    ELSE ""

RECURSIVE SkipDigits(_, _)
SkipDigits(s, i) ==
    IF i <= Len(s) /\ IsDigit(At(s, i)) THEN SkipDigits(s, i + 1) ELSE i

\* ^\d+\.\s+(.*) : where the captured name starts, 0 when the line does not
\* match
NumberedAt(line) ==
    LET d == SkipDigits(line, 1)
        n == SkipSpaces(line, d + 1)
    IN  IF d > 1 /\ d <= Len(line) /\ At(line, d) = "." /\ n > d + 1
        THEN n ELSE 0

\* BothSet with "or" for "and"
EitherSet(category, role) == category # "" \/ role # ""

\* both pieces of scan state are set
BothSet(category, role) == category # "" /\ role # ""

\* The three rules on one line, each applied when its pattern matches, in
\* the order the design lists them.
ScanLine ==
    /\ pos < Len(doc)
    /\ \E line \in {Normalize(doc[pos + 1])} :
       \E category \in {IF CategoryOf(line) # "" THEN CategoryOf(line)
                        ELSE currentCategory} :
       \E role \in {IF RoleOf(line) # "" THEN RoleOf(line) ELSE currentRole} :
          /\ currentCategory' = category
          /\ currentRole' = role
          /\ emitted' =
                IF NumberedAt(line) # 0 /\ BothSet(category, role)
                THEN Append(emitted,
                            [institution |->
                                 Strip(SubSeq(line, NumberedAt(line), Len(line))),
                             institutionType |-> category,
                             category |-> role])
                ELSE emitted
    /\ pos' = pos + 1
    /\ UNCHANGED <<doc, loadVars, dashVars, sumVars>>

Lines ==
    {"Universal and  Commercial Banks", "Sender/Receiver Desk",
     " 1.  ABC   Bank ", "10. Thrift Banks Assoc", "2.XYZ"}

InitScan ==
    /\ doc \in SeqsUpTo(Lines, MaxLines)
    /\ pos = 0
    /\ currentCategory = ""
    /\ currentRole = ""
    /\ emitted = <<>>
    /\ LoadIdle
    /\ DashIdle
    /\ SumIdle

SpecScan == InitScan /\ [][ScanLine]_vars

----------------------------------------------------------------------------
(* The summary by Category and Institution Type of a filtered table *)

\* the long names of INST_TYPE_MAP (app.py) and INST_TYPE_SHORT, in order
InstTypeLong ==
    <<"Universal and Commercial Banks (U/KBs)", "Thrift Banks (TBs)",
      "Rural Banks (RBs)", "Digital Banks",
      "Electronic Money Issuers (EMI) - Others">>

\* their short labels, in the same order
INST_TYPE_SHORT(v) ==
    IF v = "app3"
    THEN <<"UKBs", "TBs", "RBs", "DBs", "EMI-NBFI">>
    ELSE <<"U/KBs", "TBs", "RBs", "DBs", "EMI-NBFI">>

\* an integer of the pivot, and the text that takes the place of a zero
\* (an en dash, U+2013, in the scripts; written here in ASCII)
Count(n) == [k |-> "int", v |-> "", n |-> n]
Dash == Txt("-")

\* dff.groupby(["Category", "Institution Type"]): a row with NaN in either
\* key belongs to no group (dropna=True)
Groups(dff) ==
    LET c == ColumnOf(dff, "Category")
        t == ColumnOf(dff, "Institution Type")
    IN  {<<dff.rows[i].cells[c], dff.rows[i].cells[t]>> : i \in
            {i \in 1..Len(dff.rows) :
                ~IsNa(dff.rows[i].cells[c]) /\ ~IsNa(dff.rows[i].cells[t])}}

\* .size() of one group
Size(dff, g) ==
    LET c == ColumnOf(dff, "Category")
        t == ColumnOf(dff, "Institution Type")
    IN  Cardinality({i \in 1..Len(dff.rows) :
            dff.rows[i].cells[c] = g[1] /\ dff.rows[i].cells[t] = g[2]})

\* summary.pivot_table(index="Category", columns="Institution Type",
\* values="Count", aggfunc="sum", fill_value=0)
PivotTable(dff) ==
    LET groups == Groups(dff)
        index == {g[1] : g \in groups}
        columns == {g[2] : g \in groups}
    IN  [index |-> index,
         columns |-> columns,
         value |-> [cat \in index |-> [type \in columns |->
                       IF <<cat, type>> \in groups
                       THEN Size(dff, <<cat, type>>) ELSE 0]]]

RECURSIVE Kept(_, _, _)
\* pivot.rename(columns=...) then pivot[[c for c in short if c in
\* pivot.columns]]: for each short label in order, every column that carries
\* it after the renaming: the column already called so, then the column
\* renamed from the long name (the pivot's columns are sorted, and each short
\* label sorts before its long name)
Kept(v, columns, i) ==
    IF i > Len(InstTypeLong) THEN <<>>
    ELSE (IF Txt(INST_TYPE_SHORT(v)[i]) \in columns
          THEN <<[label |-> INST_TYPE_SHORT(v)[i],
                  type |-> Txt(INST_TYPE_SHORT(v)[i])]>>
          ELSE <<>>)
         \o (IF Txt(InstTypeLong[i]) \in columns
             THEN <<[label |-> INST_TYPE_SHORT(v)[i],
                     type |-> Txt(InstTypeLong[i])]>>
             ELSE <<>>)
         \o Kept(v, columns, i + 1)

RECURSIVE SumSeq(_)
SumSeq(ns) == IF Len(ns) = 0 THEN 0 ELSE ns[1] + SumSeq(Tail(ns))

RECURSIVE SumOver(_, _)
\* the sum of f over the set S
SumOver(f, S) ==
    IF S = {} THEN 0
    ELSE LET x == CHOOSE x \in S : TRUE
         IN  f[x] + SumOver(f, S \ {x})

\* pivot.replace(0, dash)
Replace(n) == IF n = 0 THEN Dash ELSE Count(n)

\* the summary section on a table that has both columns: the pivot with its
\* TOTAL column and TOTAL row, zeros replaced, as handed to st.dataframe
Summary(v, dff) ==
    LET pivot == PivotTable(dff)
        kept == Kept(v, pivot.columns, 1)
        cell == [cat \in pivot.index |->
                    [j \in 1..Len(kept) |-> pivot.value[cat][kept[j].type]]]
        \* pivot["TOTAL"] = pivot.sum(axis=1)
        TOTAL == [cat \in pivot.index |-> SumSeq(cell[cat])]
        \* total_row = pivot.sum(axis=0)
        total_row == [j \in 1..Len(kept) |->
                        SumOver([cat \in pivot.index |-> cell[cat][j]],
                                pivot.index)]
    IN  [made |-> TRUE,
         index |-> pivot.index,
         columns |-> [j \in 1..Len(kept) |-> kept[j].label],
         cell |-> [cat \in pivot.index |->
                      [j \in 1..Len(kept) |-> Replace(cell[cat][j])]],
         TOTAL |-> [cat \in pivot.index |-> Replace(TOTAL[cat])],
         total_row |-> [j \in 1..Len(kept) |-> Replace(total_row[j])],
         grand |-> Replace(SumOver(TOTAL, pivot.index))]

\* the cells of the filtered tables
Categories == {Txt("Sender/Receiver"), Txt("Receiver Only"), NaN}

InstitutionTypes ==
    {Txt("Universal and Commercial Banks (U/KBs)"), Txt("Thrift Banks (TBs)"),
     Txt("TBs"), Txt("U/KBs"), Txt("Cooperative"), NaN}

FilteredRows ==
    {<<Txt("ABC Bank"), cat, type>> : cat \in Categories, type \in InstitutionTypes}

\* a filtered table: its rows keep the labels of the rows of the sheet
FilteredTables ==
    {[columns |-> <<"Institution", "Category", "Institution Type">>,
      rows |-> [i \in 1..Len(cells) |-> [idx |-> i + 1, cells |-> cells[i]]]] :
        cells \in SeqsUpTo(FilteredRows, MaxRows)}

InitSummary ==
    /\ filtered \in FilteredTables
    /\ summaryOf = "none"
    /\ pivot_display = [made |-> FALSE]
    /\ LoadIdle
    /\ DashIdle
    /\ ScanIdle

Summarize(v) ==
    /\ summaryOf' = v
    /\ pivot_display' = Summary(v, filtered)
    /\ UNCHANGED <<filtered, loadVars, dashVars, scanVars>>

NextSummary == \E v \in Variants : Summarize(v)

SpecSummary == InitSummary /\ [][NextSummary]_vars

----------------------------------------------------------------------------
(* Properties of the loader, under SpecLoad *)

WasLoaded == variant \in Variants /\ loaded.ok

\* the sheet of the workbook an entry of the mapping was read from
SourceOf(entry) == (CHOOSE i \in 1..Len(wb) : wb[i].name = entry.sheet)

Keys == [i \in 1..Len(loaded.data) |-> loaded.data[i].sheet]

Whitespace(s) == \A i \in 1..Len(s) : At(s, i) \in {" ", "\t", "\n"}

\* the eligibility predicate of each variant, as the contract words it
C1_Satisfies(v, name) ==
    IF v = "app3"
    THEN \E i \in 1..(Len(name) - 11) : SubSeq(name, i, i + 11) = "Participants"
    ELSE \E i \in 1..(Len(name) - 11) :
            /\ SubSeq(name, i, i + 11) = "Participants"
            /\ Whitespace(SubSeq(name, i + 12, Len(name)))

C1_SatisfiesLoaded(name) == C1_Satisfies(variant, name)

\* C1: the keys of the returned mapping are exactly the sheets whose name
\* satisfies the variant's eligibility predicate, under their original
\* unstripped names and in workbook sheet order; no other sheet is a key.
C1_KeysAreEligibleSheets ==
    WasLoaded =>
        Keys = SelectSeq([i \in 1..Len(wb) |-> wb[i].name], C1_SatisfiesLoaded)

\* a name with trailing whitespace is a key of app.py's mapping, unstripped,
\* beside a sheet that app.py leaves out and app3.py would take
C1_Witness ==
    /\ WasLoaded /\ variant = "app"
    /\ Len(wb) = 2
    /\ wb[1].name = "Bills Pay Participants (Full)"
    /\ wb[2].name = "Participants "
    /\ Keys = <<"Participants ">>

\* whitespace, at most one ':' or '-', whitespace
C2_Gap(g) ==
    \/ Whitespace(g)
    \/ \E k \in 1..Len(g) :
          /\ At(g, k) \in {":", "-"}
          /\ Whitespace(SubSeq(g, 1, k - 1))
          /\ Whitespace(SubSeq(g, k + 1, Len(g)))

\* <<i, j>>: "as of" in any letter case at i, then a gap, then a date at j
C2_Fragments(text) ==
    {p \in (1..Len(text)) \X (1..Len(text)) :
        /\ p[1] + 5 <= p[2]
        /\ Lower(SubSeq(text, p[1], p[1] + 4)) = "as of"
        /\ C2_Gap(SubSeq(text, p[1] + 5, p[2] - 1))
        /\ DateAt(text, p[2])}

C2_Expected(text) ==
    LET frags == C2_Fragments(text)
    IN  IF frags = {} THEN ""
        ELSE LET first == CHOOSE p \in frags : \A q \in frags : p[1] <= q[1]
             IN  "as of " \o SubSeq(text, first[2], first[2] + 9)

\* C2: the subtitle of every returned sheet is "as of <date>" for the first
\* "as of" (any letter case, optional ':' or '-') followed by a YYYY-MM-DD
\* date in the space-joined non-empty cells of row 0, and "" when there is
\* no such fragment.
C2_SubtitleIsFirstAsOfDate ==
    WasLoaded =>
        \A e \in 1..Len(loaded.data) :
            loaded.data[e].subtitle
                = C2_Expected(Joined(wb[SourceOf(loaded.data[e])].raw))

\* "As Of:" in one cell and a date cell two columns on
C2_Witness ==
    /\ WasLoaded
    /\ Len(loaded.data) = 1
    /\ wb[1].raw[1] = <<Txt("As Of:"), NaN, Date("2024-01-05")>>
    /\ loaded.data[1].subtitle = "as of 2024-01-05"

\* column j of the sheet holds a value in some row below the header row
C4_HasData(raw, j) == \E i \in 3..Len(raw) : raw[i][j].k # "nan"

C5_NonEmpty(row) == \E j \in 1..Len(row) : row[j].k # "nan"

\* C5: the rows of a returned table are exactly the source rows 2..N with
\* at least one non-empty cell, each once per source row, in source order;
\* rows 0 and 1 are never data rows.
C5_RowsAreNonEmptySourceRows ==
    WasLoaded =>
        \A e \in 1..Len(loaded.data) :
            LET raw == wb[SourceOf(loaded.data[e])].raw
                rows == loaded.data[e].df.rows
            IN  /\ \A r \in 1..Len(rows) :
                      /\ rows[r].idx \in 2..(Len(raw) - 1)
                      /\ rows[r].cells = raw[rows[r].idx + 1]
                      /\ C5_NonEmpty(rows[r].cells)
                /\ \A r, q \in 1..Len(rows) : r < q => rows[r].idx < rows[q].idx
                /\ \A i \in 2..(Len(raw) - 1) :
                      C5_NonEmpty(raw[i + 1]) => \E r \in 1..Len(rows) : rows[r].idx = i

\* an empty row between two rows of the same institution: both are kept
C5_Witness ==
    /\ WasLoaded
    /\ Len(loaded.data) = 1
    /\ Len(wb[1].raw) = 5
    /\ ~C5_NonEmpty(wb[1].raw[4])
    /\ Len(loaded.data[1].df.rows) = 2
    /\ loaded.data[1].df.rows[1].idx = 2
    /\ loaded.data[1].df.rows[2].idx = 4
    /\ loaded.data[1].df.rows[1].cells = loaded.data[1].df.rows[2].cells

C6_Malformed(sheet) == Len(sheet.raw) < 2

\* C6: with a malformed eligible sheet in the workbook, the load returns,
\* and returns the entries of every other eligible sheet.
C6_MalformedSheetIsSkipped ==
    (/\ variant \in Variants
     /\ \E i \in 1..Len(wb) :
           C1_Satisfies(variant, wb[i].name) /\ C6_Malformed(wb[i]))
    => /\ loaded.ok
       /\ \A i \in 1..Len(wb) :
             (C1_Satisfies(variant, wb[i].name) /\ ~C6_Malformed(wb[i]))
                 => \E e \in 1..Len(loaded.data) :
                       loaded.data[e].sheet = wb[i].name

----------------------------------------------------------------------------
(* Properties of the script *)

\* a step in which the script ran and called load_participant_sheets
C3_Ran == view' # view /\ view'.load.called

C3_Step ==
    C3_Ran =>
        \* the body runs only for a key not loaded before
        /\ view'.load.parsed => view'.load.key \notin loadedKeys
        /\ view'.load.key \in loadedKeys => ~view'.load.parsed
        \* the same key as the run before: the same mapping, not parsed again
        /\ (view.load.called /\ view.load.result.ok
                /\ view'.load.key = view.load.key)
             => (~view'.load.parsed /\ view'.load.result = view.load.result)
        \* in every case, and so after the modification time changed: what
        \* parsing the file as it is now gives
        /\ view'.load.key = <<DATA_FILE, file.mtime>>
        /\ view'.load.result = load_participant_sheets(app, file.book)

\* C3: over renders interleaved with writes to the workbook, the loader
\* parses only when the key (path, modification time) was not loaded before;
\* a re-render with the key unchanged returns the previous mapping without
\* parsing; a re-render after the modification time changed returns the
\* result of parsing the current file.
C3_ParsesOncePerKey == [][C3_Step]_vars

\* the third version of the file, loaded before, is served from the cache
C3_Witness ==
    /\ view.load.called /\ ~view.load.parsed
    /\ view.load.key = <<DATA_FILE, 2>>
    /\ loadedKeys = {<<DATA_FILE, 0>>, <<DATA_FILE, 1>>, <<DATA_FILE, 2>>}
    /\ Len(view.load.result.data) = 2

\* C7: a workbook with zero eligible sheets ends the run in the EmptySource
\* error state: no sheet selected, nothing of a sheet shown, no exception.
C7_ZeroEligibleIsEmptySource ==
    (view.load.called /\ view.load.result.ok /\ Len(view.load.result.data) = 0)
        => /\ view.outcome = "EmptySource"
           /\ view.error = ""
           /\ view.active = ""
           /\ "error" \in view.shown
           /\ view.shown \cap {"header", "filters", "summary", "tables"} = {}

C8_Step ==
    (~file.exists /\ file' = file /\ view'.outcome # "none")
        => /\ view'.outcome = "NotFound"
           /\ "error" \in view'.shown
           /\ view'.shown \subseteq {"title", "error"}
           /\ ~view'.load.called /\ ~view'.load.parsed
           /\ view'.load.result = NotLoaded
           /\ view'.active = ""
           /\ cache' = cache
           /\ loadedKeys' = loadedKeys

\* C8: a run that finds no workbook file reports the missing source and
\* stops before load_participant_sheets is called: no result, nothing added
\* to the cache, no navigation, filter, summary or table.
C8_MissingFileStopsBeforeLoad == [][C8_Step]_vars

\* the file was loaded once, then removed: the run reports it missing
C8_Witness ==
    /\ ~file.exists
    /\ view.outcome = "NotFound"
    /\ DOMAIN cache # {}

\* text contains sub as a substring, letter case apart
C9_ContainsIgnoringCase(text, sub) ==
    \E i \in 1..(Len(text) - Len(sub) + 1) :
        Lower(SubSeq(text, i, i + Len(sub) - 1)) = Lower(sub)

C9_Kept(df, rows, text) ==
    LET j == CHOOSE c \in 1..Len(df.columns) : df.columns[c] = "Institution"
        Keep(r) == r.cells[j].k = "str" /\ C9_ContainsIgnoringCase(r.cells[j].v, text)
    IN  SelectSeq(rows, Keep)

\* C9: the search step keeps exactly the rows whose Institution contains the
\* search text, letter case apart; an empty search text removes no row; the
\* step raises no error, whatever the text and the table.
C9_SearchIsSubstringMatch ==
    view.search.reached =>
        /\ view.errorAt # "search"
        /\ view.search.text = "" => view.search.after = view.search.before
        /\ LET df == EntryOf(view.load.result.data, view.active).df
           IN  (view.search.text # "" /\ HasColumn(df, "Institution"))
                   => view.search.after
                          = C9_Kept(df, view.search.before, view.search.text)

----------------------------------------------------------------------------
(* Properties of the extractor's scan, under SpecScan *)

\* leading integer, dot, whitespace: d digits, then ".", then whitespace
C10_Digits(line) ==
    {d \in 1..Len(line) :
        /\ \A i \in 1..d : At(line, i) \in {"0", "1", "2", "3", "4", "5", "6", "7", "8", "9"}
        /\ d + 2 <= Len(line) + 1
        /\ At(line, d + 1) = "."
        /\ d + 2 <= Len(line) /\ At(line, d + 2) \in {" ", "\t", "\n"}}

C10_Numbered(line) == C10_Digits(line) # {}

\* the captured name, trimmed
C10_Name(line) ==
    LET d == CHOOSE d \in C10_Digits(line) : \A e \in C10_Digits(line) : e <= d
    IN  Strip(SubSeq(line, d + 2, Len(line)))

C10_Row(line) ==
    [institution |-> C10_Name(line),
     institutionType |-> currentCategory,
     category |-> currentRole]

\* what the claim says of a step that scans a numbered line
C10_NumberedStep(line) ==
    IF currentCategory # "" /\ currentRole # ""
    THEN emitted' = Append(emitted, C10_Row(line))
    ELSE /\ emitted' = emitted
         /\ currentCategory' = currentCategory
         /\ currentRole' = currentRole

C10_MostRecentCategory ==
    LET marked == {i \in 1..pos : CategoryOf(Normalize(doc[i])) # ""}
    IN  IF marked = {} THEN ""
        ELSE CategoryOf(Normalize(doc[CHOOSE i \in marked : \A j \in marked : j <= i]))

C10_MostRecentRole ==
    LET marked == {i \in 1..pos : RoleOf(Normalize(doc[i])) # ""}
    IN  IF marked = {} THEN ""
        ELSE RoleOf(Normalize(doc[CHOOSE i \in marked : \A j \in marked : j <= i]))

----------------------------------------------------------------------------
(* Properties of the password gate of app3.py, under Spec *)

\* what a run shows of the active sheet itself
C11_SheetContent == {"header", "filters", "summary", "info", "tables"}

\* what the claim says of a run with the widgets at inp
C11_Run ==
    LET inp == view'.widgets IN
    /\ (inp.pick = "Bills Pay Participants (Full)" /\ session' # "true") =>
          /\ view'.outcome = "Locked"
          /\ view'.shown \cap C11_SheetContent = {}
    /\ (session # "true" /\ session' = "true") =>
          /\ inp.pick = "Bills Pay Participants (Full)"
          /\ inp.password = APP_PASSWORD
    /\ (inp.pick # "" /\ inp.pick # "Bills Pay Participants (Full)") =>
          /\ session' = session
          /\ view'.outcome # "Locked"
          /\ view'.active = inp.pick
          /\ \A flag \in {"unset", "false", "true"} :
                Viewed(Script(app, file, cache, flag, inp), inp) = view'

C11_Step ==
    app = "app3" =>
        /\ view'.outcome # "none" => C11_Run
        /\ (session = "true" /\ session' # "true") => NewSession

\* C11: in app3.py, a run on the restricted sheet whose session flag is
\* not true at its end shows nothing of the sheet; the flag becomes true
\* only in a run where the text entered equals APP_PASSWORD; once true it
\* stays true until the session ends; a run on any other sheet shows what
\* it would show under any value of the flag.
C11_GateGuardsRestrictedSheet == [][C11_Step]_vars

\* the default password entered, the restricted sheet shown
C11_Witness ==
    /\ app = "app3"
    /\ ~environ.set
    /\ session = "true"
    /\ view.active = "Bills Pay Participants (Full)"
    /\ view.outcome = "Rendered"
    /\ "tables" \in view.shown

----------------------------------------------------------------------------
(* Properties of the summary, under SpecSummary *)

\* the number a displayed cell stands for: the dash stands for zero
C12_Number(shown) == IF shown.k = "int" THEN shown.n ELSE 0

\* the rows of the filtered table whose cells satisfy Test(category, type)
C12_Rows(Test(_, _)) ==
    {i \in 1..Len(filtered.rows) :
        Test(filtered.rows[i].cells[ColumnOf(filtered, "Category")],
             filtered.rows[i].cells[ColumnOf(filtered, "Institution Type")])}

\* the five known institution types
C12_Known ==
    {Txt("Universal and Commercial Banks (U/KBs)"), Txt("Thrift Banks (TBs)"),
     Txt("Rural Banks (RBs)"), Txt("Digital Banks"),
     Txt("Electronic Money Issuers (EMI) - Others")}

\* the known institution type a column label stands for
C12_TypeOf(label) ==
    Txt(InstTypeLong[CHOOSE i \in 1..Len(InstTypeLong) :
                        INST_TYPE_SHORT(summaryOf)[i] = label])

\* each row's TOTAL is the sum of the row's institution-type columns
C12_RowTotals ==
    \A cat \in pivot_display.index :
        C12_Number(pivot_display.TOTAL[cat]) =
            SumSeq([j \in 1..Len(pivot_display.columns) |->
                      C12_Number(pivot_display.cell[cat][j])])

\* the TOTAL row is the column-wise sum of the category rows
C12_ColumnTotals ==
    /\ \A j \in 1..Len(pivot_display.columns) :
          C12_Number(pivot_display.total_row[j]) =
              SumOver([cat \in pivot_display.index |->
                          C12_Number(pivot_display.cell[cat][j])],
                      pivot_display.index)
    /\ C12_Number(pivot_display.grand) =
          SumOver([cat \in pivot_display.index |->
                      C12_Number(pivot_display.TOTAL[cat])],
                  pivot_display.index)

\* the grand total counts the rows with a Category and a known type
C12_GrandTotal ==
    LET Counted(cat, type) == ~IsNa(cat) /\ type \in C12_Known
    IN  C12_Number(pivot_display.grand) = Cardinality(C12_Rows(Counted))

\* a cell counts the rows of its category and its column's known type, and
\* no other row
C12_OnlyKnownTypesCounted ==
    \A cat \in pivot_display.index :
        \A j \in 1..Len(pivot_display.columns) :
            LET Counted(c, type) ==
                    c = cat /\ type = C12_TypeOf(pivot_display.columns[j])
            IN  C12_Number(pivot_display.cell[cat][j]) =
                    Cardinality(C12_Rows(Counted))

\* C12: in the summary of every variant, each row's TOTAL is the sum of its
\* institution-type columns, the TOTAL row is the column-wise sum of the
\* category rows, the grand total is the number of filtered rows with a
\* Category and one of the five known institution types, and rows of any
\* other institution type are counted in no cell.
C12_SummaryTotals ==
    pivot_display.made =>
        /\ C12_RowTotals
        /\ C12_ColumnTotals
        /\ C12_GrandTotal
        /\ C12_OnlyKnownTypesCounted

====
